---- MODULE Spec2Model ----
(***************************************************************************)
(* A model of the kboot command line tool (src/kboot_cli/main.py).         *)
(*                                                                         *)
(* One run of the tool is one behaviour: main() calls the click group      *)
(* callback cli(), which scans for devices and connects, then the handler  *)
(* of the chosen command runs, and an exception raised anywhere ends in    *)
(* the except clause of main().  Every call made on the KBoot object, the  *)
(* key read from the operator and the diagnostic printed by main() are     *)
(* appended to the log `calls`, in the order the code makes them.          *)
(*                                                                         *)
(* Strings are sequences of one-character strings, so that int(s, 0),      *)
(* lower(), endswith(), ord() and the hexadecimal key decoding are         *)
(* computed the way the code computes them.                                *)
(***************************************************************************)
EXTENDS Integers, Sequences, FiniteSets, TLC

\* ------------------------------------------------------------------ bounds
\* most devices scan_usb_devs may return
MaxDevs == 2
\* most bytes in an image file or in a block read from the device
MaxLen == 2
\* most characters a backdoor key argument may have beyond its minimum
MaxKeyExtra == 1

\* ------------------------------------------------------- program constants
\* len(key) < 18: 'S:' and 16 characters
SKeyMin == 18
\* len(key) < 34: 'X:' and 32 hex digits
XKeyMin == 34
\* [0xFF]*(max(dhex.keys()) + 1)
FillByte == 255

\* ----------------------------------------------------------------- strings
None == <<"<None>">>

DecDigits == <<"0", "1", "2", "3", "4", "5", "6", "7", "8", "9">>
HexLower == <<"a", "b", "c", "d", "e", "f">>
HexUpper == <<"A", "B", "C", "D", "E", "F">>

\* position of c in the sequence t, 0 when absent
IndexIn(c, t) == IF \E i \in 1..Len(t) : t[i] = c
                 THEN CHOOSE i \in 1..Len(t) : t[i] = c
                 ELSE 0

\* the characters of the model's strings
Chars == {DecDigits[i] : i \in 1..10} \cup {HexLower[i] : i \in 1..6}
         \cup {HexUpper[i] : i \in 1..6}
         \cup {"-", "+", ".", ":", "G", "H", "I", "N", "Q", "S", "X",
               "g", "h", "i", "n", "o", "q", "r", "s", "x", "y", "z"}

\* the value of each character as a digit (0..9, a..f, A..F), -1 for the others
DigitOf ==
    [c \in Chars |->
        IF IndexIn(c, DecDigits) > 0 THEN IndexIn(c, DecDigits) - 1
        ELSE IF IndexIn(c, HexLower) > 0 THEN IndexIn(c, HexLower) + 9
        ELSE IF IndexIn(c, HexUpper) > 0 THEN IndexIn(c, HexUpper) + 9
        ELSE -1]

\* value of the digit c in the given base, -1 when c is not a digit of it
DigitVal(c, base) == IF DigitOf[c] < base THEN DigitOf[c] ELSE -1

AllDigits(s, base) == Len(s) > 0 /\ \A i \in 1..Len(s) : DigitVal(s[i], base) >= 0

RECURSIVE DigitsVal(_, _)
\* value of the digit string s (AllDigits(s, base)) in the given base
DigitsVal(s, base) ==
    IF Len(s) = 0 THEN 0
    ELSE DigitsVal(SubSeq(s, 1, Len(s) - 1), base) * base + DigitVal(s[Len(s)], base)

\* int(s, base) for an unsigned string without prefix: [ok, v]
ParseDigits(s, base) ==
    IF AllDigits(s, base) THEN [ok |-> TRUE, v |-> DigitsVal(s, base)]
    ELSE [ok |-> FALSE, v |-> 0]

\* int(s, b) of Python 3 over the characters the model uses (digits, letters,
\* sign), b = 0 for the base-0 form: an optional sign, then a 0x/0o/0b prefix
\* (base 0, or the prefix of base b) and digits of that base; a base-0 decimal
\* literal has no leading zero unless it is all zeros.
\* ok = FALSE stands for ValueError.
ParseInt(s, b) ==
    LET signed == Len(s) > 0 /\ s[1] \in {"-", "+"}
        body == IF signed THEN SubSeq(s, 2, Len(s)) ELSE s
        pre == IF Len(body) >= 2 /\ body[1] = "0" THEN body[2] ELSE ""
        preBase == IF pre \in {"x", "X"} THEN 16
                   ELSE IF pre \in {"o", "O"} THEN 8
                   ELSE IF pre \in {"b", "B"} THEN 2
                   ELSE 0
        strip == preBase # 0 /\ (b = 0 \/ b = preBase)
        base == IF b # 0 THEN b ELSE IF preBase # 0 THEN preBase ELSE 10
        digits == IF strip THEN SubSeq(body, 3, Len(body)) ELSE body
        r == ParseDigits(digits, base)
        lead0 == b = 0 /\ ~strip /\ Len(digits) > 1 /\ digits[1] = "0" /\ r.ok /\ r.v # 0
    IN IF r.ok /\ ~lead0
       THEN [ok |-> TRUE, v |-> IF signed /\ s[1] = "-" THEN 0 - r.v ELSE r.v]
       ELSE [ok |-> FALSE, v |-> 0]

\* int(s, 0)
ParseInt0(s) == ParseInt(s, 0)

\* ord(c) for the characters the model uses
Ord(c) == IF IndexIn(c, DecDigits) > 0 THEN 47 + IndexIn(c, DecDigits)
          ELSE IF IndexIn(c, HexUpper) > 0 THEN 64 + IndexIn(c, HexUpper)
          ELSE IF IndexIn(c, HexLower) > 0 THEN 96 + IndexIn(c, HexLower)
          ELSE IF c = ":" THEN 58
          ELSE IF c = "G" THEN 71
          ELSE IF c = "Q" THEN 81
          ELSE IF c = "S" THEN 83
          ELSE IF c = "X" THEN 88
          ELSE IF c = "g" THEN 103
          ELSE IF c = "z" THEN 122
          ELSE 63

\* str.lower() of one character
LowerChar(c) == IF IndexIn(c, HexUpper) > 0 THEN HexLower[IndexIn(c, HexUpper)]
                ELSE IF c = "H" THEN "h"
                ELSE IF c = "I" THEN "i"
                ELSE IF c = "N" THEN "n"
                ELSE IF c = "R" THEN "r"
                ELSE IF c = "S" THEN "s"
                ELSE IF c = "X" THEN "x"
                ELSE IF c = "Y" THEN "y"
                ELSE IF c = "Z" THEN "z"
                ELSE c

\* str.lower()
Lower(s) == [i \in 1..Len(s) |-> LowerChar(s[i])]

\* s.endswith(suffix)
EndsWith(s, suffix) ==
    /\ Len(s) >= Len(suffix)
    /\ SubSeq(s, Len(s) - Len(suffix) + 1, Len(s)) = suffix

ExtBin == <<".", "b", "i", "n">>
ExtHex == <<".", "h", "e", "x">>
ExtS19 == <<".", "s", "1", "9">>
ExtSrec == <<".", "s", "r", "e", "c">>

\* file.lower().endswith(('.bin', '.hex', '.s19', '.srec'))
SupportedExt(f) == \E e \in {ExtBin, ExtHex, ExtS19, ExtSrec} : EndsWith(Lower(f), e)

\* data[k:] of Python: a negative k counts from the end
SliceFrom(data, k) ==
    LET from == IF k >= 0 THEN k
                ELSE IF Len(data) + k > 0 THEN Len(data) + k ELSE 0
    IN SubSeq(data, from + 1, Len(data))

\* ------------------------------------------------------------ unlock's key
\* AsciiKey taking key[1:]: the ':' becomes part of the key
AsciiKey_FromColon(key) == [i \in 1..(Len(key) - 1) |-> Ord(key[i + 1])]

\* [ord(k) for k in key[2:]]
AsciiKey(key) == [i \in 1..(Len(key) - 2) |-> Ord(key[i + 2])]

\* the chunks key[i:i+2] for i in range(0, len(key), 2); the last one has one
\* character when len(key) is odd
HexChunks(body) ==
    [j \in 1..((Len(body) + 1) \div 2) |->
        SubSeq(body, 2 * j - 1, IF 2 * j <= Len(body) THEN 2 * j ELSE Len(body))]

\* the backdoor key unlock() builds from a key argument that is not None:
\* [err, bdoor], err = "none" when flash_security_disable(bdoor) is reached
ParseKey(key) ==
    IF Len(key) = 0 THEN [err |-> "string index out of range", bdoor |-> <<>>]
    ELSE IF key[1] = "S"
    THEN IF Len(key) < SKeyMin
         THEN [err |-> "Short key, use 16 ASCII chars !", bdoor |-> <<>>]
         ELSE [err |-> "none", bdoor |-> AsciiKey(key)]
    ELSE IF Len(key) < XKeyMin
         THEN [err |-> "Short key, use 32 HEX chars !", bdoor |-> <<>>]
         ELSE LET chunks == HexChunks(SubSeq(key, 3, Len(key)))
              IN IF \A j \in 1..Len(chunks) : ParseInt(chunks[j], 16).ok
                 THEN [err |-> "none",
                       bdoor |-> [j \in 1..Len(chunks) |-> ParseInt(chunks[j], 16).v]]
                 ELSE [err |-> "Unsupported HEX char in Key !", bdoor |-> <<>>]

\* ------------------------------------------------------------------ inputs
Bytes == {65, FillByte}

\* the byte sequences of at most n bytes
ByteSeqs(n) == UNION {[1..k -> Bytes] : k \in 0..n}

\* the address -> byte mappings an Intel-hex file may hold (IntelHex.todict())
HexDicts == UNION {[d -> Bytes] : d \in SUBSET (0..(MaxLen - 1))}

DefaultAddr == <<"0", "x", "0", "0", "0", "0", "0", "0", "0", "0">>
\* the default of --pattern is 0xFFFFFFFF; the model keeps patterns under 2^31
DefaultPattern == <<"0", "x", "F", "F">>
\* --vid and --pid default to kboot.DEFAULT_VID and kboot.DEFAULT_PID, written
\* as 0x%04X; main.py does not show their values, any four hex digits do
DefaultVid == <<"0", "x", "1", "5", "A", "2">>
DefaultPid == <<"0", "x", "0", "0", "7", "3">>

AddrStrs == {DefaultAddr, <<"2">>, <<"z">>}
OffsetStrs == {DefaultAddr, <<"1">>, <<"0", "x", "3">>, <<"q">>}
LengthStrs == {<<"1">>, <<"0", "x", "2">>, <<"1", "g">>}
PatternStrs == {DefaultPattern, <<"6", "5">>, <<"0", "x">>}

FileNames == {<<"a">> \o ExtBin, <<"a", ".", "H", "E", "X">>, <<"a">> \o ExtS19,
              <<"a">> \o ExtSrec, <<"a", ".", "x", "y", "z">>, <<>>}

\* the (vid, pid, debug) options of the group: the defaults, and the ones the
\* group callback rejects
DefaultOpts == <<DefaultVid, DefaultPid, 0>>
BadOpts == {<<<<"z">>, DefaultPid, 0>>, <<DefaultVid, <<"0", "x">>, 1>>,
            <<DefaultVid, DefaultPid, 3>>}

KeyChars == {"A", "f", "G"}

\* n characters a, the one at pos replaced by b
KeyBody(n, a, b, pos) == [i \in 1..n |-> IF i = pos THEN b ELSE a]

KeyBodies(min) ==
    {KeyBody(n, a, b, pos) : n \in {0} \cup ((min - 3)..(min - 2 + MaxKeyExtra)),
                             a \in KeyChars, b \in KeyChars, pos \in {1, min - 2}}

HexDigitOf(v, upper) == IF v < 10 THEN DecDigits[v + 1]
                        ELSE IF upper THEN HexUpper[v - 9] ELSE HexLower[v - 9]

\* the two hex digits of each character code of k, in upper or lower case
HexOf(k, upper) ==
    [i \in 1..(2 * Len(k)) |->
        LET c == Ord(k[(i + 1) \div 2])
        IN IF i % 2 = 1 THEN HexDigitOf(c \div 16, upper) ELSE HexDigitOf(c % 16, upper)]

\* the 16-character keys of the model
AsciiKeys == {k \in KeyBodies(SKeyMin) : Len(k) = SKeyMin - 2}

KeyArgs ==
    {None, <<>>}
    \cup {<<"S", ":">> \o b : b \in KeyBodies(SKeyMin)}
    \cup {<<"S", "X">> \o b : b \in AsciiKeys}
    \cup {p \o b : p \in {<<"X", ":">>, <<"Q", ":">>}, b \in KeyBodies(XKeyMin)}
    \cup {<<"X", ":">> \o HexOf(k, u) : k \in AsciiKeys, u \in BOOLEAN}

Commands == {"info", "write", "read", "erase", "unlock", "fill", "reset"}

\* ---------------------------------------------------------------- hexdump
\* chr(c) for the printable codes the model's data holds
Chr(c) == IF c = 32 THEN " "
          ELSE IF c = 65 THEN "A"
          ELSE IF c = 126 THEN "~"
          ELSE "?"

\* the longest row: if length > 16: length = 16
MaxRow == 16

\* data[lo:hi] of Python, for 0 <= lo
Slice(data, lo, hi) == SubSeq(data, lo + 1, IF hi < Len(data) THEN hi ELSE Len(data))

\* '%08X' % n
Hex8(n) == [k \in 1..8 |-> HexDigitOf((n \div (16 ^ (8 - k))) % 16, TRUE)]

\* '%-ns' % s: s with spaces on the right up to n characters
PadRight(s, n) == IF Len(s) >= n THEN s ELSE s \o [k \in 1..(n - Len(s)) |-> " "]

\* RowBytes cutting every row after the first at i, as if the dump were aligned
RowBytes_NoOffset(data, i, length, offset, align) ==
    IF align THEN Slice(data, 0, length - offset) ELSE Slice(data, i, i + length)

\* subSrc: the bytes of the row that starts at i
RowBytes(data, i, length, offset, align) ==
    IF align THEN Slice(data, 0, length - offset)
    ELSE Slice(data, i - offset, i + length - offset)

\* LeadBlank leaving no column blank
LeadBlank_None(offset, align) == 0

\* the columns left blank at the start of a row: offset of them when the row
\* is the first of a dump that does not start on a multiple of length
LeadBlank(offset, align) == IF align THEN offset ELSE 0

\* hexa: three spaces for each blank column, then "{0:02X} " for each byte
RowHexa(sub, lead) ==
    [j \in 1..(3 * (lead + Len(sub))) |->
        LET col == (j - 1) \div 3
            p == (j - 1) % 3
        IN IF col < lead \/ p = 2 THEN " "
           ELSE IF p = 0 THEN HexDigitOf(sub[col - lead + 1] \div 16, TRUE)
           ELSE HexDigitOf(sub[col - lead + 1] % 16, TRUE)]

\* text: a space for each blank column, then for each byte its character when
\* 0x20 <= c < 0x7F and sep otherwise
RowText(sub, lead, sep) ==
    [j \in 1..(lead + Len(sub)) |->
        IF j <= lead THEN " "
        ELSE IF 32 <= sub[j - lead] /\ sub[j - lead] < 127 THEN Chr(sub[j - lead])
        ELSE sep]

\* hexdump(data, saddr, length, sep): the header's column numbers, the length
\* of the two rules, and one row ' %08X | %-<3*length>s| %s' for every i of
\* xrange(0, len(data) + offset, length)
hexdump(data, saddr, length0, sep) ==
    LET length == IF length0 > MaxRow THEN MaxRow ELSE length0
        offset == saddr % length
        address == saddr - offset
        n == (Len(data) + offset + length - 1) \div length
        row(r) ==
            LET i == (r - 1) * length
                align == r = 1 /\ offset > 0
                subSrc == RowBytes(data, i, length, offset, align)
                lead == LeadBlank(offset, align)
            IN [label |-> Hex8(address + i),
                hexa |-> PadRight(RowHexa(subSrc, lead), 3 * length),
                text |-> RowText(subSrc, lead, sep)]
    IN [header |-> [c \in 1..length |-> c - 1],
        rule |-> 13 + 4 * length,
        rows |-> [r \in 1..n |-> row(r)]]

\* what a call of hexdump leaves in dump
Shown(data, saddr, length) ==
    [data |-> data, saddr |-> saddr, length |-> length, shown |-> TRUE,
     result |-> hexdump(data, saddr, length, ".")]

\* no call of hexdump yet
NoDump == [data |-> <<>>, saddr |-> 0, length |-> MaxRow, shown |-> FALSE, result |-> <<>>]

\* ------------------------------------------------------------------- state
VARIABLES
    cmd,      \* the subcommand of this run
    opts,     \* <<vid, pid, debug>>
    addr, length, offset, pattern, file, mass, key,   \* its options (None: not given)
    lexists,  \* os.path.lexists(file) when write() asks
    fraw,     \* the bytes of the input file (.bin), or SRecFile.data
    fdict,    \* IntelHex.todict() of the input file
    fstart,   \* SRecFile.start_addr of the input file
    pc,       \* "start", "cmd", "except", "done"
    devs,     \* the devices scan_usb_devs returned
    session,  \* the KBoot object: "Unconnected" or "Connected"
    calls,    \* the calls made so far, in order
    exc,      \* the message of the exception raised, "none" if none
    out,      \* what read() showed or saved
    exit,     \* the exit status, -1 while running
    dump      \* the call of hexdump: its arguments and what it returned

vars == <<cmd, opts, addr, length, offset, pattern, file, mass, key, lexists,
          fraw, fdict, fstart, pc, devs, session, calls, exc, out, exit, dump>>

args == <<cmd, opts, addr, length, offset, pattern, file, mass, key, lexists,
          fraw, fdict, fstart>>

\* the arguments of a command that does not take them
NoArgs ==
    /\ addr = DefaultAddr /\ length = None /\ offset = DefaultAddr
    /\ pattern = DefaultPattern /\ file = None /\ mass = FALSE /\ key = None
    /\ lexists = FALSE /\ fraw = <<>> /\ fdict = <<>> /\ fstart = 0

InitArgs ==
    \/ /\ cmd \in {"info", "reset"} /\ NoArgs
    \/ /\ cmd = "write"
       /\ addr \in AddrStrs /\ offset \in OffsetStrs /\ file \in FileNames
       /\ lexists \in (IF Len(file) = 0 THEN {FALSE} ELSE BOOLEAN)
       /\ length = None /\ pattern = DefaultPattern /\ mass = FALSE /\ key = None
       /\ IF EndsWith(Lower(file), ExtBin)
          THEN fraw \in ByteSeqs(MaxLen) /\ fdict = <<>> /\ fstart = 0
          ELSE IF EndsWith(Lower(file), ExtHex)
          THEN fraw = <<>> /\ fdict \in HexDicts /\ fstart = 0
          ELSE IF SupportedExt(file)
          THEN fraw \in ByteSeqs(MaxLen) /\ fdict = <<>> /\ fstart \in {0, 2}
          ELSE fraw = <<>> /\ fdict = <<>> /\ fstart = 0
    \/ /\ cmd = "read"
       /\ addr \in AddrStrs /\ length \in LengthStrs /\ file \in FileNames \cup {None}
       /\ offset = DefaultAddr /\ pattern = DefaultPattern /\ mass = FALSE /\ key = None
       /\ lexists = FALSE /\ fraw = <<>> /\ fdict = <<>> /\ fstart = 0
    \/ /\ cmd = "erase"
       /\ addr \in AddrStrs /\ length \in LengthStrs \cup {None, <<>>} /\ mass \in BOOLEAN
       /\ offset = DefaultAddr /\ pattern = DefaultPattern /\ file = None /\ key = None
       /\ lexists = FALSE /\ fraw = <<>> /\ fdict = <<>> /\ fstart = 0
    \/ /\ cmd = "unlock"
       /\ key \in KeyArgs
       /\ addr = DefaultAddr /\ length = None /\ offset = DefaultAddr
       /\ pattern = DefaultPattern /\ file = None /\ mass = FALSE
       /\ lexists = FALSE /\ fraw = <<>> /\ fdict = <<>> /\ fstart = 0
    \/ /\ cmd = "fill"
       /\ addr \in AddrStrs /\ length \in LengthStrs /\ pattern \in PatternStrs
       /\ offset = DefaultAddr /\ file = None /\ mass = FALSE /\ key = None
       /\ lexists = FALSE /\ fraw = <<>> /\ fdict = <<>> /\ fstart = 0

\* the state when main() is entered: the command line has been split by click
\* and the module-level KBoot() has been created, not connected.  The group
\* callback runs before the subcommand's options are parsed, so a run whose
\* group options are rejected never looks at them.
Init ==
    /\ cmd \in Commands
    /\ \/ opts = DefaultOpts /\ InitArgs
       \/ opts \in BadOpts /\ NoArgs
    /\ pc = "start" /\ devs = <<>> /\ session = "Unconnected" /\ calls = <<>>
    /\ exc = "none" /\ out = <<"none">> /\ exit = -1
    /\ dump = NoDump

\* --------------------------------------------------------- the KBoot object
\* one entry of the log: the call, its arguments, whether it returned
Call(op, a, ok) == [op |-> op, a |-> a, ok |-> ok]

\* KBoot.disconnect(): closes the session; harmless when there is none
Disconnect == Call("disconnect", <<>>, TRUE)

\* the calls that read or change the device's memory or state
DeviceOps == {"get_mcu_info", "read_memory", "write_memory", "flash_erase_all_unsecure",
              "flash_erase_region", "flash_security_disable", "fill_memory", "reset"}

\* the session after the calls cs, made in order from the session s
RECURSIVE SessionAfter(_, _)
SessionAfter(s, cs) ==
    IF Len(cs) = 0 THEN s
    ELSE SessionAfter(IF Head(cs).op = "connect" /\ Head(cs).ok THEN "Connected"
                      ELSE IF Head(cs).op = "disconnect" THEN "Unconnected"
                      ELSE s,
                      Tail(cs))

\* ----------------------------------------------------------------- outcomes
\* what a handler did: the calls it made, the exception it raised ("none" when
\* it returned), and what it showed or saved
Outcome(cs, e, o) == [calls |-> cs, exc |-> e, out |-> o]

\* the handler's outcome becomes the state: an exception goes to main()'s
\* except clause, a return ends the process with status 0 (click's sys.exit)
Finish(r) ==
    /\ calls' = calls \o r.calls
    /\ session' = SessionAfter(session, r.calls)
    /\ out' = r.out
    /\ exc' = r.exc
    /\ IF r.exc = "none"
       THEN pc' = "done" /\ exit' = 0
       ELSE pc' = "except" /\ exit' = exit
    /\ dump' = IF r.out[1] = "hexdump" THEN Shown(r.out[3], r.out[2], MaxRow) ELSE dump
    /\ UNCHANGED <<args, devs>>

\* ------------------------------------------------------------ cli (group)
\* scan_usb_devs(): the devices found are numbered from 0
Devs(n) == [i \in 1..n |-> i - 1]

\* what click.getchar() may return
SelChars == {DecDigits[i] : i \in 1..(MaxDevs + 1)} \cup {"a"}

\* SelectedIndex ignoring what the operator typed
SelectedIndex_First(n, typed) == 0

\* index = 0; if len(devs) > 1: index = int(c, 10)
SelectedIndex(n, typed) == IF n > 1 THEN typed ELSE 0

\* the group callback with n devices found, the key c pressed and connect()
\* succeeding or not: the calls it makes and the exception it raises
cliOutcome(n, c, ok) ==
    LET vid == ParseInt0(opts[1])
        pid == ParseInt0(opts[2])
        scan == Call("scan_usb_devs", <<vid.v, pid.v>>, TRUE)
        ask == n > 1
        sel == ParseInt(<<c>>, 10)
        index == SelectedIndex(n, sel.v)
        pre == <<scan>> \o (IF ask THEN <<Call("getchar", <<c>>, TRUE)>> ELSE <<>>)
    IN IF opts[3] > 2 THEN Outcome(<<>>, "list index out of range", <<"none">>)
       ELSE IF ~vid.ok THEN Outcome(<<>>, "Invalid value for --vid", <<"none">>)
       ELSE IF ~pid.ok THEN Outcome(<<>>, "Invalid value for --pid", <<"none">>)
       ELSE IF n = 0 THEN Outcome(<<scan>>, "No MCU with KBoot detected !", <<"none">>)
       ELSE IF ask /\ ~sel.ok THEN Outcome(pre, "invalid literal for int()", <<"none">>)
       ELSE IF index >= n THEN Outcome(pre, "list index out of range", <<"none">>)
       ELSE IF ~ok
       THEN Outcome(pre \o <<Call("connect", <<Devs(n)[index + 1]>>, FALSE)>>,
                    "ConnectFailed", <<"none">>)
       ELSE Outcome(pre \o <<Call("connect", <<Devs(n)[index + 1]>>, TRUE)>>,
                    "none", <<"none">>)

cli ==
    /\ pc = "start"
    /\ \E n \in 0..MaxDevs, c \in SelChars, ok \in BOOLEAN :
         \E r \in {cliOutcome(n, c, ok)} :
            /\ calls' = calls \o r.calls
            /\ devs' = IF Len(r.calls) > 0 THEN Devs(n) ELSE devs
            /\ session' = SessionAfter(session, r.calls)
            /\ exc' = r.exc
            /\ pc' = IF r.exc = "none" THEN "cmd" ELSE "except"
            /\ UNCHANGED <<args, out, exit, dump>>

\* ------------------------------------------------------------------- info
infoOutcome(ok) ==
    IF ~ok THEN Outcome(<<Call("get_mcu_info", <<>>, FALSE)>>, "DeviceOperationFailed", <<"none">>)
    ELSE Outcome(<<Call("get_mcu_info", <<>>, TRUE), Disconnect>>, "none", <<"info">>)

info ==
    /\ pc = "cmd" /\ cmd = "info"
    /\ \E ok \in BOOLEAN : \E r \in {infoOutcome(ok)} : Finish(r)

\* ------------------------------------------------------------------ write
\* HexData counting from the lowest address of the file
HexData_FromMin(dhex) ==
    LET top == CHOOSE m \in DOMAIN dhex : \A a \in DOMAIN dhex : a <= m
        low == CHOOSE m \in DOMAIN dhex : \A a \in DOMAIN dhex : m <= a
    IN [i \in 1..(top - low + 1) |->
           IF (low + i - 1) \in DOMAIN dhex THEN dhex[low + i - 1] ELSE FillByte]

\* data = [0xFF]*(max(dhex.keys()) + 1); data[i] = val
HexData(dhex) ==
    LET top == CHOOSE m \in DOMAIN dhex : \A a \in DOMAIN dhex : a <= m
    IN [i \in 1..(top + 1) |-> IF (i - 1) \in DOMAIN dhex THEN dhex[i - 1] ELSE FillByte]

\* if foffset < len(data): data = data[foffset:]
ApplyOffset(data, foffset) == IF foffset < Len(data) THEN SliceFrom(data, foffset) ELSE data

\* writeDevice writing before it erases
writeDevice_WriteFirst(saddr, data, eraseOk, writeOk) ==
    IF ~writeOk
    THEN Outcome(<<Call("write_memory", <<saddr, data>>, FALSE)>>,
                 "DeviceOperationFailed", <<"none">>)
    ELSE IF ~eraseOk
    THEN Outcome(<<Call("write_memory", <<saddr, data>>, TRUE),
                   Call("flash_erase_all_unsecure", <<>>, FALSE)>>,
                 "DeviceOperationFailed", <<"none">>)
    ELSE Outcome(<<Call("write_memory", <<saddr, data>>, TRUE),
                   Call("flash_erase_all_unsecure", <<>>, TRUE),
                   Disconnect>>,
                 "none", <<"none">>)

\* writeDevice going on to write after an erase that failed
writeDevice_IgnoreEraseFailure(saddr, data, eraseOk, writeOk) ==
    IF ~writeOk
    THEN Outcome(<<Call("flash_erase_all_unsecure", <<>>, eraseOk),
                   Call("write_memory", <<saddr, data>>, FALSE)>>,
                 "DeviceOperationFailed", <<"none">>)
    ELSE Outcome(<<Call("flash_erase_all_unsecure", <<>>, eraseOk),
                   Call("write_memory", <<saddr, data>>, TRUE),
                   Disconnect>>,
                 "none", <<"none">>)

\* the calls write() makes on the device once the image is loaded
writeDevice(saddr, data, eraseOk, writeOk) ==
    IF ~eraseOk
    THEN Outcome(<<Call("flash_erase_all_unsecure", <<>>, FALSE)>>,
                 "DeviceOperationFailed", <<"none">>)
    ELSE IF ~writeOk
    THEN Outcome(<<Call("flash_erase_all_unsecure", <<>>, TRUE),
                   Call("write_memory", <<saddr, data>>, FALSE)>>,
                 "DeviceOperationFailed", <<"none">>)
    ELSE Outcome(<<Call("flash_erase_all_unsecure", <<>>, TRUE),
                   Call("write_memory", <<saddr, data>>, TRUE),
                   Disconnect>>,
                 "none", <<"none">>)

\* os.path.lexists(file) raises 'File does not exist' when the file exists
FileCheckFails(exists) == exists

\* the image write() loads from a file holding raw (its bytes, or the data of
\* its S-records), dict (its Intel-hex address -> byte map) and start (the
\* start address of its S-records): the address to write at and the bytes
LoadImage(f, saddr, raw, dict, start) ==
    IF EndsWith(Lower(f), ExtBin) THEN [saddr |-> saddr, data |-> raw]
    ELSE IF EndsWith(Lower(f), ExtHex) THEN [saddr |-> saddr, data |-> HexData(dict)]
    ELSE [saddr |-> IF saddr = 0 THEN start ELSE saddr, data |-> raw]

\* write() on the options a_ (addr), o_ (offset), f (file) and a file that
\* exists or not at the lexists check and holds raw, dict and start: opened
\* says whether the file can be opened when the loader opens it, parsed
\* whether the Intel-hex or S-record parser accepts it
writeRun(a_, o_, f, exists, raw, dict, start, opened, parsed, eraseOk, writeOk) ==
    LET a == ParseInt0(a_)
        o == ParseInt0(o_)
        low == Lower(f)
        fail(e) == Outcome(<<>>, e, <<"none">>)
        img == LoadImage(f, a.v, raw, dict, start)
    IN IF ~a.ok THEN fail("Invalid value for --addr")
       ELSE IF ~o.ok THEN fail("Invalid value for --offset")
       ELSE IF Len(f) > 0 /\ ~SupportedExt(f) THEN fail("Not supported file type !")
       ELSE IF FileCheckFails(exists) THEN fail("File does not exist")
       ELSE IF ~opened \/ Len(f) = 0 THEN fail("Could not read from file")
       ELSE IF ~EndsWith(low, ExtBin) /\ ~parsed THEN fail("Could not read from file")
       ELSE IF EndsWith(low, ExtHex) /\ DOMAIN dict = {}
       THEN fail("max() arg is an empty sequence")
       ELSE writeDevice(img.saddr, ApplyOffset(img.data, o.v), eraseOk, writeOk)

\* write() of this run: (a file that did not exist when lexists was asked and
\* opens has been created by another process since)
writeOutcome(opened, parsed, eraseOk, writeOk) ==
    writeRun(addr, offset, file, lexists, fraw, fdict, fstart, opened, parsed, eraseOk, writeOk)

write ==
    /\ pc = "cmd" /\ cmd = "write"
    /\ \E opened \in BOOLEAN, parsed \in BOOLEAN, eraseOk \in BOOLEAN, writeOk \in BOOLEAN :
         \E r \in {writeOutcome(opened, parsed, eraseOk, writeOk)} : Finish(r)

\* ------------------------------------------------------------------- read
\* the format read() saves in, by the extension of the output file
SaveFormat(f) == IF EndsWith(Lower(f), ExtBin) THEN "bin"
                 ELSE IF EndsWith(Lower(f), ExtHex) THEN "hex"
                 ELSE "srec"

\* what the file read() saves holds: the bytes as they are (.bin), the
\* bytes at the addresses 0, 1, ... with start_addr = saddr
\* (ihex.frombytes(data, 0)), or S-records of the data with the start
\* address saddr
SavedFile(fmt, saddr, data) ==
    IF fmt = "bin" THEN [raw |-> data, dict |-> <<>>, start |-> 0]
    ELSE IF fmt = "hex"
    THEN [raw |-> <<>>, dict |-> [i \in 0..(Len(data) - 1) |-> data[i + 1]], start |-> saddr]
    ELSE [raw |-> data, dict |-> <<>>, start |-> saddr]

\* read(): ok says whether read_memory succeeds, data is what it returns,
\* saved whether the output file can be written
readOutcome(ok, data, saved) ==
    LET a == ParseInt0(addr)
        l == ParseInt0(length)
        fail(e) == Outcome(<<>>, e, <<"none">>)
    IN IF ~a.ok THEN fail("Invalid value for --addr")
       ELSE IF ~l.ok THEN fail("Invalid value for --length")
       ELSE IF file # None /\ Len(file) > 0 /\ ~SupportedExt(file)
       THEN fail("Not supported file type !")
       ELSE IF ~ok
       THEN Outcome(<<Call("read_memory", <<a.v, l.v>>, FALSE)>>,
                    "DeviceOperationFailed", <<"none">>)
       ELSE LET cs == <<Call("read_memory", <<a.v, l.v>>, TRUE), Disconnect>>
            IN IF file = None THEN Outcome(cs, "none", <<"hexdump", a.v, data>>)
               ELSE IF ~saved \/ Len(file) = 0
               THEN Outcome(cs, "Could not write to file", <<"none">>)
               ELSE Outcome(cs, "none", <<"file", SaveFormat(file), a.v, data>>)

read ==
    /\ pc = "cmd" /\ cmd = "read"
    /\ \E ok \in BOOLEAN, data \in ByteSeqs(MaxLen), saved \in BOOLEAN :
         /\ ok /\ ParseInt0(length).ok => Len(data) = ParseInt0(length).v
         /\ \E r \in {readOutcome(ok, data, saved)} : Finish(r)

\* ------------------------------------------------------------------ erase
\* DeviceThenDisconnect with the disconnect made first
DisconnectThenDevice(op, a, ok) ==
    IF ~ok THEN Outcome(<<Disconnect, Call(op, a, FALSE)>>, "DeviceOperationFailed", <<"none">>)
    ELSE Outcome(<<Disconnect, Call(op, a, TRUE)>>, "none", <<"none">>)

\* one device call, then disconnect; the call may fail
DeviceThenDisconnect(op, a, ok) ==
    IF ~ok THEN Outcome(<<Call(op, a, FALSE)>>, "DeviceOperationFailed", <<"none">>)
    ELSE Outcome(<<Call(op, a, TRUE), Disconnect>>, "none", <<"none">>)

\* NoLength taking the empty string for a length
NoLength_OnlyNone(l) == l = None

\* not length: the option was not given, or is the empty string
NoLength(l) == l = None \/ Len(l) = 0

eraseOutcome(ok) ==
    LET a == ParseInt0(addr)
        l == ParseInt0(length)
    IN IF mass \/ NoLength(length)
       THEN DeviceThenDisconnect("flash_erase_all_unsecure", <<>>, ok)
       ELSE IF ~a.ok THEN Outcome(<<>>, "Invalid value for --addr", <<"none">>)
       ELSE IF ~l.ok THEN Outcome(<<>>, "Invalid value for --length", <<"none">>)
       ELSE DeviceThenDisconnect("flash_erase_region", <<a.v, l.v>>, ok)

erase ==
    /\ pc = "cmd" /\ cmd = "erase"
    /\ \E ok \in BOOLEAN : \E r \in {eraseOutcome(ok)} : Finish(r)

\* ----------------------------------------------------------------- unlock
unlockOutcome(ok) ==
    IF key = None THEN DeviceThenDisconnect("flash_erase_all_unsecure", <<>>, ok)
    ELSE LET k == ParseKey(key)
         IN IF k.err # "none" THEN Outcome(<<>>, k.err, <<"none">>)
            ELSE DeviceThenDisconnect("flash_security_disable", <<k.bdoor>>, ok)

unlock ==
    /\ pc = "cmd" /\ cmd = "unlock"
    /\ \E ok \in BOOLEAN : \E r \in {unlockOutcome(ok)} : Finish(r)

\* ------------------------------------------------------------------- fill
\* fillOutcome checking the pattern only after the device has been filled
fillOutcome_LateCheck(ok) ==
    LET a == ParseInt0(addr)
        l == ParseInt0(length)
        p == ParseInt0(pattern)
    IN IF ~a.ok THEN Outcome(<<>>, "Invalid value for --addr", <<"none">>)
       ELSE IF ~l.ok THEN Outcome(<<>>, "Invalid value for --length", <<"none">>)
       ELSE IF ~p.ok
       THEN Outcome(<<Call("fill_memory", <<a.v, l.v, 0>>, TRUE)>>,
                    "Invalid value for --length (pattern)", <<"none">>)
       ELSE DeviceThenDisconnect("fill_memory", <<a.v, l.v, p.v>>, ok)

\* fill(): ok says whether fill_memory succeeds
fillOutcome(ok) ==
    LET a == ParseInt0(addr)
        l == ParseInt0(length)
        p == ParseInt0(pattern)
    IN IF ~a.ok THEN Outcome(<<>>, "Invalid value for --addr", <<"none">>)
       ELSE IF ~l.ok THEN Outcome(<<>>, "Invalid value for --length", <<"none">>)
       ELSE IF ~p.ok THEN Outcome(<<>>, "Invalid value for --length (pattern)", <<"none">>)
       ELSE DeviceThenDisconnect("fill_memory", <<a.v, l.v, p.v>>, ok)

fill ==
    /\ pc = "cmd" /\ cmd = "fill"
    /\ \E ok \in BOOLEAN : \E r \in {fillOutcome(ok)} : Finish(r)

\* ------------------------------------------------------------------ reset
\* reset() returns without a disconnect
resetOutcome(ok) ==
    IF ~ok THEN Outcome(<<Call("reset", <<>>, FALSE)>>, "DeviceOperationFailed", <<"none">>)
    ELSE Outcome(<<Call("reset", <<>>, TRUE)>>, "none", <<"none">>)

reset ==
    /\ pc = "cmd" /\ cmd = "reset"
    /\ \E ok \in BOOLEAN : \E r \in {resetOutcome(ok)} : Finish(r)

\* ------------------------------------------------------------------- main
\* exceptCalls without the disconnect
exceptCalls_NoDisconnect(e) == <<Call("diag", <<e>>, TRUE)>>

\* exceptCalls without the diagnostic
exceptCalls_NoDiag(e) == <<Disconnect>>

\* what the except clause of main() does with the exception e
exceptCalls(e) == <<Disconnect, Call("diag", <<e>>, TRUE)>>

\* except Exception: disconnect, print '<E> message', sys.exit(1)
main_except ==
    /\ pc = "except"
    /\ calls' = calls \o exceptCalls(exc)
    /\ session' = SessionAfter(session, exceptCalls(exc))
    /\ pc' = "done"
    /\ exit' = 1
    /\ UNCHANGED <<args, devs, exc, out, dump>>

Next ==
    \/ cli
    \/ info
    \/ write
    \/ read
    \/ erase
    \/ unlock
    \/ fill
    \/ reset
    \/ main_except

Spec == Init /\ [][Next]_vars

\* ------------------------------------------------------- hexdump by itself
\* hexdump is a function of its arguments: here it is called on its own, on
\* data of up to MaxDump bytes at the addresses 0 .. MaxDumpAddr and at
\* 0x1003, with every row length from 1 to one more than MaxRow
MaxDump == 6
MaxDumpAddr == 18

\* bytes on both sides of the two ends of the printable range
DumpByteList == <<65, 32, 126, 127, 31, FillByte>>

\* the data: DumpByteList read round from each of its bytes
DumpData ==
    {[k \in 1..n |-> DumpByteList[((k + r) % Len(DumpByteList)) + 1]] :
        n \in 0..MaxDump, r \in 1..Len(DumpByteList)}

DumpAddrs == (0..MaxDumpAddr) \cup {4099}

InitDump ==
    /\ cmd = "read" /\ opts = DefaultOpts /\ NoArgs
    /\ pc = "hexdump" /\ devs = <<>> /\ session = "Unconnected" /\ calls = <<>>
    /\ exc = "none" /\ out = <<"none">> /\ exit = -1
    /\ \E d \in DumpData, a \in DumpAddrs, w \in 1..(MaxRow + 1) :
          dump = [data |-> d, saddr |-> a, length |-> w, shown |-> FALSE, result |-> <<>>]

hexdump_call ==
    /\ pc = "hexdump"
    /\ dump' = Shown(dump.data, dump.saddr, dump.length)
    /\ pc' = "done"
    /\ UNCHANGED <<args, devs, session, calls, exc, out, exit>>

NextDump == hexdump_call

SpecDump == InitDump /\ [][NextDump]_vars

\* =================================================================== claims
\* ------------------------------------------------------- reading the log
Has(op) == \E i \in 1..Len(calls) : calls[i].op = op
Count(op) == Cardinality({i \in 1..Len(calls) : calls[i].op = op})
Before(op1, op2) ==
    \E i \in 1..Len(calls), j \in 1..Len(calls) :
        i < j /\ calls[i].op = op1 /\ calls[j].op = op2
WasConnected == \E i \in 1..Len(calls) : calls[i].op = "connect" /\ calls[i].ok
DeviceFailed == \E i \in 1..Len(calls) : calls[i].op \in DeviceOps /\ ~calls[i].ok
AnyCallFailed == \E i \in 1..Len(calls) : ~calls[i].ok
Finished == pc = "done"

\* the messages of the errors raised for a malformed option of the group
OptErrors == {"Invalid value for --vid", "Invalid value for --pid"}

\* the messages of the errors raised for a malformed option of a command
MalformedErrors ==
    {"Invalid value for --addr", "Invalid value for --offset", "Invalid value for --length",
     "Invalid value for --length (pattern)", "Not supported file type !",
     "Short key, use 16 ASCII chars !", "Short key, use 32 HEX chars !",
     "Unsupported HEX char in Key !", "string index out of range"}

\* the messages of the errors raised before a command's first device call
InputErrors == MalformedErrors \cup {"File does not exist", "Could not read from file"}

\* ----------------------------------------------------------------------- C1
\* C1: when a device operation has failed after the session was connected,
\* disconnect is invoked exactly once in the run, before the diagnostic is
\* reported, and the run ends with status 1.
C1_OneDisconnectOnDeviceFailure ==
    DeviceFailed =>
        /\ WasConnected
        /\ Count("disconnect") <= 1
        /\ Has("diag") => Before("disconnect", "diag")
        /\ Finished => Count("disconnect") = 1 /\ Count("diag") = 1 /\ exit = 1

C1_Witness == Finished /\ DeviceFailed /\ cmd = "read" /\ Before("disconnect", "diag")

\* ----------------------------------------------------------------------- C2
\* C2: every run that connected the session has invoked disconnect at least
\* once when the process exits, whatever the command and the way it ends.
C2_DisconnectOnEveryExit == (Finished /\ WasConnected) => Has("disconnect")

\* ----------------------------------------------------------------------- C3
\* the image write() loads from the input file
LoadedImage ==
    IF EndsWith(Lower(file), ExtHex) /\ DOMAIN fdict # {} THEN HexData(fdict) ELSE fraw

\* a write run with numeric addr and offset and a supported file name that
\* names an existing file holding an image
GoodWriteArgs ==
    /\ cmd = "write" /\ opts = DefaultOpts
    /\ ParseInt0(addr).ok /\ ParseInt0(offset).ok
    /\ SupportedExt(file) /\ lexists
    /\ EndsWith(Lower(file), ExtHex) => DOMAIN fdict # {}

\* C3: a write run with good arguments on a device whose every call succeeds
\* erases, then writes, then disconnects, and ends with success.
C3_WriteSucceeds ==
    (Finished /\ GoodWriteArgs /\ WasConnected /\ ~AnyCallFailed) =>
        /\ exit = 0 /\ ~Has("diag")
        /\ \E i, j, k \in 1..Len(calls) :
              /\ i < j /\ j < k
              /\ calls[i].op = "flash_erase_all_unsecure"
              /\ calls[j].op = "write_memory"
              /\ calls[k].op = "disconnect"

\* ----------------------------------------------------------------------- C4
\* C4: in a write run, every write_memory call comes after a full erase
\* (erase-all-and-unsecure) that succeeded, and no erase call follows it.
C4_EraseBeforeWrite ==
    cmd = "write" =>
        \A j \in 1..Len(calls) :
            calls[j].op = "write_memory" =>
                /\ \E i \in 1..(j - 1) :
                      calls[i].op = "flash_erase_all_unsecure" /\ calls[i].ok
                /\ \A k \in (j + 1)..Len(calls) :
                      calls[k].op \notin {"flash_erase_all_unsecure", "flash_erase_region"}

C4_Witness == cmd = "write" /\ Finished /\ Before("flash_erase_all_unsecure", "write_memory")

\* ----------------------------------------------------------------------- C5
\* C5: a write run whose offset is at least the number of bytes of the image
\* never invokes write_memory, and does not end in an error when the device
\* is connected and nothing else fails.
C5_OffsetPastImage ==
    (GoodWriteArgs /\ ParseInt0(offset).v >= Len(LoadedImage)) =>
        /\ ~Has("write_memory")
        /\ (Finished /\ WasConnected /\ ~AnyCallFailed) => exit = 0

\* ----------------------------------------------------------------------- C6
\* C6 as stated: when the error of a malformed argument is reported, neither
\* connect nor any device operation has been invoked in the run.
C6_NoDeviceCallBeforeError ==
    exc \in MalformedErrors \cup OptErrors =>
        \A i \in 1..Len(calls) : calls[i].op \notin DeviceOps \cup {"connect"}

\* C6 as amended: when a command rejects a malformed argument (or an input
\* file it reports missing or unreadable), no device operation has been
\* invoked in the run; a malformed --vid or --pid is rejected before the scan
\* and the connect, a malformed option of a command after them.
C6_NoDeviceOpBeforeError ==
    /\ exc \in InputErrors \cup OptErrors =>
          \A i \in 1..Len(calls) : calls[i].op \notin DeviceOps
    /\ exc \in OptErrors => ~Has("scan_usb_devs") /\ ~Has("connect")
    /\ exc \in InputErrors => WasConnected

C6_Witness ==
    /\ Finished /\ cmd = "fill" /\ exc = "Invalid value for --length (pattern)"
    /\ WasConnected /\ exit = 1

\* ----------------------------------------------------------------------- C7
\* 'S:' and exactly 16 characters, or 'X:' and exactly 32 hex digits
WellFormedKey(k) ==
    \/ Len(k) = SKeyMin /\ k[1] = "S" /\ k[2] = ":"
    \/ /\ Len(k) = XKeyMin /\ k[1] = "X" /\ k[2] = ":"
       /\ \A i \in 3..Len(k) : DigitVal(k[i], 16) >= 0

\* C7: flash_security_disable is invoked only with a 16-byte key from a well
\* formed key argument; every other non-empty key argument ends in a
\* validation error without a flash_security_disable call.
C7_OnlySixteenByteKeys ==
    (cmd = "unlock" /\ key # None) =>
        /\ \A i \in 1..Len(calls) :
              calls[i].op = "flash_security_disable" =>
                  Len(calls[i].a[1]) = 16 /\ WellFormedKey(key)
        /\ (Len(key) > 0 /\ ~WellFormedKey(key)) =>
              /\ ~Has("flash_security_disable")
              /\ (Finished /\ WasConnected) => exit = 1 /\ exc \in MalformedErrors

C9_DeviceOpsOnlyWhileConnected ==
    /\ Count("connect") <= 1
    /\ \A j \in 1..Len(calls) :
          calls[j].op \in DeviceOps =>
              /\ SessionAfter("Unconnected", SubSeq(calls, 1, j - 1)) = "Connected"
              /\ \E i \in 1..(j - 1) : calls[i].op = "connect" /\ calls[i].ok
              /\ \A i \in 1..(j - 1) : calls[i].op # "disconnect"

C9_Witness ==
    /\ Finished /\ cmd = "erase" /\ exit = 0
    /\ Before("connect", "flash_erase_region") /\ Before("flash_erase_region", "disconnect")

\* ---------------------------------------------------------------------- C10
\* the zero-based index the operator typed, -1 when it is not a digit
TypedIndex(c) == IndexIn(c, DecDigits) - 1

\* C10: with one device found connect is invoked on it without asking; with
\* more than one it is invoked on the device at the index the operator
\* typed; with none, or a selection that is not a number or out of range,
\* connect is never invoked and the run ends with an error.
C10_DeviceSelection ==
    Has("scan_usb_devs") =>
        /\ Len(devs) = 0 => ~Has("connect") /\ ~Has("getchar")
        /\ Len(devs) = 1 =>
              /\ ~Has("getchar")
              /\ \E i \in 1..Len(calls) : calls[i].op = "connect" /\ calls[i].a = <<devs[1]>>
        /\ Len(devs) > 1 =>
              \E g \in 1..Len(calls) :
                  /\ calls[g].op = "getchar"
                  /\ LET t == TypedIndex(calls[g].a[1])
                     IN IF t >= 0 /\ t < Len(devs)
                        THEN \E i \in (g + 1)..Len(calls) :
                                calls[i].op = "connect" /\ calls[i].a = <<devs[t + 1]>>
                        ELSE ~Has("connect")
        /\ (~Has("connect") /\ Finished) => exit = 1 /\ Has("diag")

C10_Witness ==
    /\ Len(devs) > 1 /\ Finished
    /\ \E g, i \in 1..Len(calls) :
          /\ g < i /\ calls[g].op = "getchar" /\ calls[g].a = <<"1">>
          /\ calls[i].op = "connect" /\ calls[i].a = <<devs[2]>> /\ calls[i].ok

\* ---------------------------------------------------------------------- C15
\* the erase calls of the log
EraseCalls ==
    {i \in 1..Len(calls) : calls[i].op \in {"flash_erase_all_unsecure", "flash_erase_region"}}

\* the erase handler has run on a connected session
HandlerRan == WasConnected /\ pc \in {"except", "done"}

\* C15: an erase run whose handler runs issues exactly one erase call: the
\* full-device erase when the mass flag is set or no length is given, and
\* otherwise (addr and length being numbers) flash_erase_region with the
\* parsed addr and length; it never issues a second one.
C15_EraseDispatch ==
    cmd = "erase" =>
        /\ Cardinality(EraseCalls) <= 1
        /\ (HandlerRan /\ (mass \/ length \in {None, <<>>})) =>
              \E i \in EraseCalls :
                  calls[i].op = "flash_erase_all_unsecure" /\ EraseCalls = {i}
        /\ (HandlerRan /\ ~mass /\ length \notin {None, <<>>}
              /\ ParseInt0(addr).ok /\ ParseInt0(length).ok) =>
              \E i \in EraseCalls :
                  /\ calls[i].op = "flash_erase_region"
                  /\ calls[i].a = <<ParseInt0(addr).v, ParseInt0(length).v>>
                  /\ EraseCalls = {i}

C15_Witness ==
    /\ cmd = "erase" /\ Finished /\ exit = 0 /\ ~mass
    /\ \E i \in 1..Len(calls) : calls[i].op = "flash_erase_region" /\ calls[i].a = <<2, 1>>

\* ---------------------------------------------------------------------- C16
\* C16: a run ends with exit status 0 and no diagnostic when nothing was
\* raised, and with exit status 1 and exactly one '<E> message' diagnostic
\* when an error was raised.
C16_ExitStatus ==
    /\ Finished /\ exc = "none" => exit = 0 /\ Count("diag") = 0
    /\ Finished /\ exc # "none" =>
          /\ exit = 1 /\ Count("diag") = 1
          /\ \A i \in 1..Len(calls) : calls[i].op = "diag" => calls[i].a = <<exc>>
    /\ ~Finished => exit = -1 /\ Count("diag") = 0

C16_Witness == Finished /\ exit = 1 /\ exc = "No MCU with KBoot detected !" /\ Count("diag") = 1

\* ---------------------------------------------------------------------- C18
\* C18 as stated: disconnect is invoked at most once in a run.
C18_AtMostOneDisconnect == Count("disconnect") <= 1

\* C18 as amended: disconnect is invoked at most twice in a run, and twice
\* only in a read run whose output file cannot be written after the data was
\* read: read() has disconnected by then and main() disconnects again.
C18_SecondDisconnectOnlyAfterSave ==
    /\ Count("disconnect") <= 2
    /\ Count("disconnect") = 2 =>
          /\ cmd = "read" /\ exc = "Could not write to file"
          /\ Before("read_memory", "disconnect")

C18_Witness ==
    /\ Finished /\ cmd = "read" /\ Count("disconnect") = 2
    /\ exc = "Could not write to file" /\ exit = 1

\* ---------------------------------------------------------------------- C19
\* C19: in a write run whose erase-all-and-unsecure call fails, write_memory
\* is never invoked and the run ends with the diagnostic and exit status 1.
C19_FailedEraseStopsWrite ==
    (cmd = "write"
        /\ \E i \in 1..Len(calls) : calls[i].op = "flash_erase_all_unsecure" /\ ~calls[i].ok) =>
        /\ ~Has("write_memory")
        /\ exc = "DeviceOperationFailed"
        /\ Finished => exit = 1 /\ Count("diag") = 1

C19_Witness ==
    /\ cmd = "write" /\ Finished /\ exit = 1
    /\ \E i \in 1..Len(calls) : calls[i].op = "flash_erase_all_unsecure" /\ ~calls[i].ok

\* ---------------------------------------------------------------------- C12
\* the write_memory calls of a write run
WriteCalls == {i \in 1..Len(calls) : cmd = "write" /\ calls[i].op = "write_memory"}

\* a write run that loaded an Intel-hex file and got as far as write_memory
HexWritten == WriteCalls # {} /\ EndsWith(Lower(file), ExtHex)

MinAddr == CHOOSE m \in DOMAIN fdict : \A a \in DOMAIN fdict : m <= a
MaxAddr == CHOOSE m \in DOMAIN fdict : \A a \in DOMAIN fdict : a <= m

\* C12 as stated: the image loaded from an Intel-hex file starts with the
\* byte at the lowest address of the file, is max - min + 1 bytes long, holds
\* 0xFF at the addresses the file leaves out, and its base address is that
\* lowest address (write run with the default addr and no offset).
C12_HexImageFromMinAddress ==
    (HexWritten /\ ParseInt0(addr).v = 0 /\ ParseInt0(offset).v = 0) =>
        \A i \in WriteCalls :
            /\ calls[i].a[1] = MinAddr
            /\ Len(calls[i].a[2]) = MaxAddr - MinAddr + 1
            /\ \A k \in 0..(MaxAddr - MinAddr) :
                  calls[i].a[2][k + 1] =
                      IF (MinAddr + k) \in DOMAIN fdict THEN fdict[MinAddr + k] ELSE 255

\* C12 as amended: the image loaded from an Intel-hex file holds at index i
\* the byte at address i of the file, from address 0 on, is max + 1 bytes
\* long, holds 0xFF at the addresses the file leaves out, and its base
\* address is the addr argument (write run with no offset).
C12_HexImageFromZero ==
    (HexWritten /\ ParseInt0(offset).v = 0) =>
        \A i \in WriteCalls :
            /\ calls[i].a[1] = ParseInt0(addr).v
            /\ Len(calls[i].a[2]) = MaxAddr + 1
            /\ \A k \in 0..MaxAddr :
                  calls[i].a[2][k + 1] = IF k \in DOMAIN fdict THEN fdict[k] ELSE 255

C12_Witness ==
    /\ HexWritten /\ Finished /\ exit = 0 /\ ParseInt0(offset).v = 0
    /\ DOMAIN fdict = {1} /\ fdict[1] = 65
    /\ \E i \in WriteCalls : calls[i].a = <<0, <<255, 65>>>>

\* ---------------------------------------------------------------------- C13
\* the image of this write run before the offset is applied
RunImage == LoadImage(file, ParseInt0(addr).v, fraw, fdict, fstart)

\* C13: a write run with an offset k below the number of image bytes
\* transmits the image bytes from index k on, at the image's base address
\* advanced by k.
C13_OffsetAdvancesAddress ==
    \A i \in WriteCalls :
        ParseInt0(offset).v < Len(RunImage.data) =>
            /\ calls[i].a[2] = SubSeq(RunImage.data, ParseInt0(offset).v + 1, Len(RunImage.data))
            /\ calls[i].a[1] = RunImage.saddr + ParseInt0(offset).v

\* ---------------------------------------------------------------------- C14
\* the write_memory calls of a write run, with the default addr and offset,
\* on the file this read run has saved, the device answering every call
RoundTripCalls ==
    LET sf == SavedFile(out[2], out[3], out[4])
        r == writeRun(DefaultAddr, DefaultAddr, file, TRUE, sf.raw, sf.dict, sf.start,
                      TRUE, TRUE, TRUE, TRUE)
    IN {r.calls[i] : i \in {j \in 1..Len(r.calls) : r.calls[j].op = "write_memory"}}

\* C14: the bytes B read at address A and saved to a file by a read run come
\* back as write_memory(A, B) when a write run loads that file, in each of
\* the three formats.
C14_RoundTrip ==
    (Finished /\ cmd = "read" /\ out[1] = "file" /\ Len(out[4]) > 0) =>
        \E c \in RoundTripCalls : c.a = <<out[3], out[4]>>

\* ---------------------------------------------------------------------- C11
\* the row length hexdump works with, and the columns before the first byte
DumpWidth == IF dump.length > 16 THEN 16 ELSE dump.length
DumpOffset == dump.saddr % DumpWidth
DumpRows == dump.result.rows

\* the address a row is labelled with
RowLabel(row) == ParseInt(row.label, 16).v

\* the three characters of column col (0, 1, ...) of the hex part of a row
HexCol(row, col) == SubSeq(row.hexa, 3 * col + 1, 3 * col + 3)

\* the byte a column of the hex part shows, -1 when it is blank
ColByte(c) ==
    IF c = <<" ", " ", " ">> THEN -1
    ELSE IF c[3] # " " \/ DigitVal(c[1], 16) < 0 \/ DigitVal(c[2], 16) < 0 THEN -2
    ELSE 16 * DigitVal(c[1], 16) + DigitVal(c[2], 16)

\* the character the ASCII part shows for the byte b
ShownChar(b) == IF b >= 32 /\ b <= 126 THEN Chr(b) ELSE "."

\* C11: with offset = A mod w the first row is labelled A - offset and its
\* first offset hex columns and ASCII columns are blank; the data byte k is
\* in the row labelled (A+k) - ((A+k) mod w) at column (A+k) mod w, in the
\* hex part and in the ASCII part.
C11_DumpAlignment ==
    dump.shown =>
        /\ DumpRows # <<>> =>
              /\ RowLabel(DumpRows[1]) = dump.saddr - DumpOffset
              /\ \A j \in 0..(DumpOffset - 1) :
                    /\ ColByte(HexCol(DumpRows[1], j)) = -1
                    /\ DumpRows[1].text[j + 1] = " "
        /\ \A k \in 0..(Len(dump.data) - 1) :
              LET col == (dump.saddr + k) % DumpWidth
              IN \E r \in 1..Len(DumpRows) :
                    /\ RowLabel(DumpRows[r]) = (dump.saddr + k) - col
                    /\ ColByte(HexCol(DumpRows[r], col)) = dump.data[k + 1]
                    /\ DumpRows[r].text[col + 1] = ShownChar(dump.data[k + 1])

\* the dump of three bytes from 0x1003 in rows of 16: three blank columns,
\* the first byte in the fourth
C11_Witness ==
    /\ dump.shown /\ dump.saddr = 4099 /\ dump.length = 16 /\ Len(dump.data) = 3
    /\ Len(DumpRows) = 1 /\ RowLabel(DumpRows[1]) = 4096
    /\ ColByte(HexCol(DumpRows[1], 2)) = -1
    /\ ColByte(HexCol(DumpRows[1], 3)) = dump.data[1]

\* ---------------------------------------------------------------------- C17
\* the bytes a row shows, in order: its columns that are not blank
RECURSIVE RowCells(_, _)
RowCells(row, col) ==
    IF col >= DumpWidth THEN <<>>
    ELSE (IF ColByte(HexCol(row, col)) = -1 THEN <<>> ELSE <<ColByte(HexCol(row, col))>>)
         \o RowCells(row, col + 1)

\* the bytes of the rows from r on, in order
RECURSIVE CellsFrom(_)
CellsFrom(r) ==
    IF r > Len(DumpRows) THEN <<>> ELSE RowCells(DumpRows[r], 0) \o CellsFrom(r + 1)

\* C17: the data cells of the rows, in order, are the input bytes; a row
\* between the first and the last holds w bytes; the labels go up by w; the
\* last row holds the bytes that are left and ends there, in the ASCII part
\* too.
C17_DumpRows ==
    dump.shown =>
        /\ CellsFrom(1) = dump.data
        /\ \A r \in 2..(Len(DumpRows) - 1) : Len(RowCells(DumpRows[r], 0)) = DumpWidth
        /\ \A r \in 1..(Len(DumpRows) - 1) :
              RowLabel(DumpRows[r + 1]) = RowLabel(DumpRows[r]) + DumpWidth
        /\ \A r \in 1..Len(DumpRows) :
              LET lead == IF r = 1 THEN DumpOffset ELSE 0
              IN /\ Len(DumpRows[r].text) = lead + Len(RowCells(DumpRows[r], 0))
                 /\ Len(DumpRows[r].hexa) = 3 * DumpWidth
                 /\ Len(RowCells(DumpRows[r], 0)) <= DumpWidth - lead
        /\ Len(DumpRows) = (Len(dump.data) + DumpOffset + DumpWidth - 1) \div DumpWidth

\* six bytes from address 7 in rows of 4: one byte, a full row, one byte
C17_Witness ==
    /\ dump.shown /\ dump.saddr = 7 /\ dump.length = 4 /\ Len(dump.data) = 6
    /\ Len(DumpRows) = 3
    /\ Len(RowCells(DumpRows[1], 0)) = 1
    /\ Len(RowCells(DumpRows[2], 0)) = 4
    /\ Len(RowCells(DumpRows[3], 0)) = 1

====
